---- MODULE Spec2Model ----
(***************************************************************************)
(* Model of src/channels/telegram.ts: the TelegramChannel adapter (connect, *)
(* inbound handlers, sendMessage, setTyping, disconnect) and the module-     *)
(* level bot pool (initBotPool, sendPoolMessage, hasPoolBots).              *)
(*                                                                         *)
(* JavaScript is single-threaded: an async function runs without           *)
(* interruption up to its next await.  Every action below is one such run: *)
(* the start of a call up to its first await, or the resumption of a call  *)
(* after the platform has settled the promise it awaits, up to the next    *)
(* await or the end of the function.                                        *)
(***************************************************************************)
EXTENDS Integers, Sequences, FiniteSets, TLC

VARIABLES
    bots,           \* every Bot instance created by connect(): its polling state
    bot,            \* this.bot: index into bots, 0 models null
    registered,     \* keys of the map returned by opts.registeredGroups()
    events,         \* inbound updates the handlers have been run on, in order
    delivered,      \* invocations of opts.onMessage, in order
    metadata,       \* invocations of opts.onChatMetadata, in order
    poolApis,       \* const poolApis: Api[]  (the tokens of the Api instances)
    senderBotMap,   \* const senderBotMap: Map<string, number>
    nextPoolIndex,  \* let nextPoolIndex
    init,           \* the invocation of initBotPool: its position in the loop
                    \* and how the getMe of each token so far has settled
    calls           \* invocations of sendMessage / setTyping / sendPoolMessage,
                    \* each with the requests it has handed to the platform

vars == <<bots, bot, registered, events, delivered, metadata,
          poolApis, senderBotMap, nextPoolIndex, init, calls>>

chanVars == <<bots, bot, registered, events, delivered, metadata>>
poolVars == <<poolApis, senderBotMap, nextPoolIndex, init>>

-----------------------------------------------------------------------------
(* Bounds of the model *)

MaxCalls == 1        \* invocations of the three send operations in Spec
MaxInFlight == 2     \* invocations suspended at an await at the same time
MaxPoolCalls == 4    \* invocations of sendPoolMessage in the pool specification
MaxInitCalls == 2    \* invocations of sendPoolMessage while initBotPool runs
MaxKeyCalls == 2     \* invocations of sendPoolMessage with keys that hold ':'
MaxTokens == 2       \* length of the credential list given to initBotPool
MaxEvents == 2       \* inbound updates per behaviour
MaxBots == 2         \* connect() invocations per behaviour
MaxTextLen == 9000   \* longest outbound text

(* Program constants *)

MAX_LENGTH == 4096
NaN == -1            \* the value of n % 0 in JavaScript; no valid index

-----------------------------------------------------------------------------
(* Inputs *)

ChatIds == {"1", "2"}
AllTokens == <<"t1", "t2", "t3">>
TokenLists == {SubSeq(AllTokens, 1, n) : n \in 0..MaxTokens}

\* (groupFolder, sender) pairs given to sendPoolMessage
PoolKeys == {<<"A", "alice">>, <<"B", "bob">>, <<"C", "carol">>}
SendKeys == {<<"A", "alice">>}
ColonKeys == {<<"A:x", "y">>, <<"A", "x:y">>, <<"A", "alice">>}

\* An outbound text is identified by its length; its content is TextOf(len),
\* whose code units are pairwise different, so that any loss, duplication or
\* reordering of code units changes the value.
TextLens == {0, MAX_LENGTH, MAX_LENGTH + 1, 2 * MAX_LENGTH, MaxTextLen}
ShortLens == {1}
Texts == [n \in TextLens \cup ShortLens |-> [k \in 1..n |-> k]]
TextOf(len) == Texts[len]

Min(a, b) == IF a < b THEN a ELSE b

-----------------------------------------------------------------------------
(* Pure helpers of the send paths *)

\* `tg:${ctx.chat.id}`
ChatJid(id) == "tg:" \o id

\* jid.replace(/^tg:/, '')
NumericId(jid) ==
    IF \E id \in ChatIds : jid = ChatJid(id)
    THEN CHOOSE id \in ChatIds : jid = ChatJid(id)
    ELSE jid

\* text.slice(start, end) for 0 <= start <= end: the code units start..end-1,
\* both clamped to the length of the text.  A segment is kept as its two
\* offsets into the text; SegText gives its content.
SliceEndInclusive(len, start, end) ==
    [from |-> Min(start, len), to |-> Min(end - 1, len)]
Slice(len, start, end) == [from |-> Min(start, len), to |-> Min(end, len)]

\* the whole text, handed over unsliced
Whole(len) == [from |-> 0, to |-> len]

SegText(len, seg) == SubSeq(TextOf(len), seg.from + 1, seg.to)

\* `${groupFolder}:${sender}`
Key(groupFolder, sender) == groupFolder \o ":" \o sender

\* nextPoolIndex % poolApis.length
JsMod(a, n) == IF n = 0 THEN NaN ELSE a % n

\* if (poolApis.length === 0) return;
PoolNeverEmpty(pool) == FALSE
PoolIsEmpty(pool) == Len(pool) = 0

\* poolApis[idx] !== undefined
HasApi(pool, idx) == idx \in 0 .. Len(pool) - 1

-----------------------------------------------------------------------------
(* State after module load and construction of the channel *)

NoInit == [pc |-> "idle", tokens |-> <<>>, pos |-> 0, settled |-> <<>>]

Init ==
    /\ bots = <<>>
    /\ bot = 0
    /\ registered = {}
    /\ events = <<>>
    /\ delivered = <<>>
    /\ metadata = <<>>
    /\ poolApis = <<>>
    /\ senderBotMap = [k \in {} |-> 0]
    /\ nextPoolIndex = 0
    /\ init = NoInit
    /\ calls = <<>>

-----------------------------------------------------------------------------
(* Invocations and platform requests *)

\* One invocation of sendMessage, setTyping or sendPoolMessage: its arguments,
\* its locals (idx, i), where it is suspended (pc), how it ended, and the
\* requests it has handed to the platform, in order.
\*   n      poolApis.length as read on line 420
\*   fresh  the invocation took the branch idx === undefined
\*   result "sent": the info line after the sends was reached;
\*          "failed": a catch block of the send was entered;
\*          "noop": an early return was taken
NewCall(op, jid, text, sender, groupFolder) ==
    [op |-> op, pc |-> "start", jid |-> jid, text |-> text, sender |-> sender,
     groupFolder |-> groupFolder, idx |-> NaN, n |-> 0, fresh |-> FALSE,
     i |-> 0, result |-> "", promise |-> "pending", reqs |-> <<>>]

\* a request handed to the platform; its promise is pending until settled
Req(kind, via, arg, seg) ==
    [kind |-> kind, via |-> via, arg |-> arg, seg |-> seg, status |-> "pending"]

NoSeg == [from |-> 0, to |-> 0]

Hand(rec, reqs) == [rec EXCEPT !.reqs = @ \o reqs]

\* the platform settles the pending request s of the invocation
Settled(rec, s, ok) ==
    [rec EXCEPT !.reqs[s].status = IF ok THEN "ok" ELSE "failed"]

PendingOf(rec, kind) ==
    {s \in DOMAIN rec.reqs : /\ rec.reqs[s].kind = kind
                             /\ rec.reqs[s].status = "pending"}

InFlight == {cid \in DOMAIN calls : calls[cid].pc # "done"}

\* return (the async function's promise is fulfilled)
Return(rec, result) ==
    [rec EXCEPT !.pc = "done", !.result = result, !.promise = "fulfilled"]

\* an exception leaves the async function (its promise is rejected)
Throw(rec) ==
    [rec EXCEPT !.pc = "done", !.result = "failed", !.promise = "rejected"]

-----------------------------------------------------------------------------
(* The chunked send shared by sendMessage (329-347) and sendPoolMessage     *)
(* (432-446)                                                                *)

\* The identity the next api.sendMessage goes through: this.bot for
\* sendMessage, poolApis[idx] for sendPoolMessage; <<>> when that is null or
\* undefined, in which case the member access throws a TypeError.
TargetOf(rec) ==
    IF rec.op = "sendPoolMessage"
    THEN IF HasApi(poolApis, rec.idx) THEN <<"pool", rec.idx>> ELSE <<>>
    ELSE IF bot # 0 THEN <<"bot", bot>> ELSE <<>>

\* catch (err) { logger.error(...) } around the sends
SendCatchRethrows(rec) == Throw(rec)
SendCatch(rec) == Return(rec, "failed")

\* the api.sendMessage calls of one pass through the loop body at offset i,
\* up to its await
ChunkAtNoAwait(len, i) ==
    [k \in 1 .. ((len - i + MAX_LENGTH - 1) \div MAX_LENGTH) |->
        Slice(len, i + (k - 1) * MAX_LENGTH, i + k * MAX_LENGTH)]
ChunkAt(len, i) == <<Slice(len, i, i + MAX_LENGTH)>>

\* the api.sendMessage calls made on entering the send, up to the first await
FirstSegments(len) ==
    IF len <= MAX_LENGTH THEN <<Whole(len)>> ELSE ChunkAt(len, 0)

Requests(via, jid, segs) ==
    [k \in 1..Len(segs) |-> Req("sendMessage", via, NumericId(jid), segs[k])]

\* lines 432-437/440 (and 330-335/338): from the try to the first await
SendStage(rec) ==
    LET via == TargetOf(rec) IN
    IF via = <<>>
    THEN SendCatch(rec)
    ELSE Hand([rec EXCEPT !.pc = "send", !.i = 0],
              Requests(via, rec.jid, FirstSegments(rec.text)))

\* an awaited api.sendMessage has resolved: the rest of the loop, up to the
\* next await or the info line
ContinueSend(rec) ==
    LET j == rec.i + MAX_LENGTH IN
    IF rec.text <= MAX_LENGTH \/ ~(j < rec.text)
    THEN Return(rec, "sent")
    ELSE LET via == TargetOf(rec) IN
         IF via = <<>>
         THEN SendCatch(rec)
         ELSE Hand([rec EXCEPT !.i = j],
                   Requests(via, rec.jid, ChunkAt(rec.text, j)))

\* an awaited api.sendMessage has rejected: the catch around the whole send
SendRejectedContinues(rec) == ContinueSend(rec)
SendRejected(rec) == SendCatch(rec)

\* the platform settles a pending api.sendMessage of invocation cid
SendSettled(cid, ok) ==
    /\ cid \in DOMAIN calls
    /\ calls[cid].pc = "send"
    /\ \E s \in PendingOf(calls[cid], "sendMessage") :
         LET rec == Settled(calls[cid], s, ok)
         IN calls' = [calls EXCEPT ![cid] = IF ok THEN ContinueSend(rec)
                                                  ELSE SendRejected(rec)]
    /\ UNCHANGED <<chanVars, poolVars>>

-----------------------------------------------------------------------------
(* The bot pool: initBotPool (386-403), sendPoolMessage (409-447),          *)
(* hasPoolBots (449-451)                                                    *)

hasPoolBots == Len(poolApis) > 0

\* initBotPool(tokens), up to the first await api.getMe(); the loop body is
\* not entered for an empty list
InitBotPool(tokens) ==
    /\ init.pc = "idle"
    /\ init' = IF tokens = <<>>
               THEN [pc |-> "done", tokens |-> tokens, pos |-> 0, settled |-> <<>>]
               ELSE [pc |-> "getMe", tokens |-> tokens, pos |-> 1, settled |-> <<>>]
    /\ UNCHANGED <<chanVars, poolApis, senderBotMap, nextPoolIndex, calls>>

\* api.getMe() settles: push on success, log on failure, then the next token
GetMeSettledAborts(ok) ==
    /\ init.pc = "getMe"
    /\ poolApis' = IF ok THEN Append(poolApis, init.tokens[init.pos])
                         ELSE poolApis
    /\ init' = IF ok /\ init.pos < Len(init.tokens)
               THEN [init EXCEPT !.pos = init.pos + 1, !.settled = Append(@, ok)]
               ELSE [init EXCEPT !.pc = "done", !.settled = Append(@, ok)]
    /\ UNCHANGED <<chanVars, senderBotMap, nextPoolIndex, calls>>
GetMeSettled(ok) ==
    /\ init.pc = "getMe"
    /\ poolApis' = IF ok THEN Append(poolApis, init.tokens[init.pos])
                         ELSE poolApis
    /\ init' = IF init.pos < Len(init.tokens)
               THEN [init EXCEPT !.pos = init.pos + 1, !.settled = Append(@, ok)]
               ELSE [init EXCEPT !.pc = "done", !.settled = Append(@, ok)]
    /\ UNCHANGED <<chanVars, senderBotMap, nextPoolIndex, calls>>

\* senderBotMap.get(key) !== undefined
MapHasNever(map, key) == FALSE
MapHas(map, key) == key \in DOMAIN map

\* senderBotMap.set(key, idx)
MapSetForgotten(map, key, idx) == map
MapSet(map, key, idx) ==
    [k \in DOMAIN map \cup {key} |-> IF k = key THEN idx ELSE map[k]]

\* nextPoolIndex++
IncrementSkipped(next) == next
Increment(next) == next + 1

\* catch (err) { logger.warn(... '(sending anyway)') } of the rename: control
\* falls through to the send
RenameCatchAborts(rec) == SendCatch(rec)
RenameCatch(rec) == SendStage(rec)

\* idx !== undefined: the block of lines 419-430 is skipped and control goes
\* straight to the send
ReuseRenames(rec) ==
    Hand([rec EXCEPT !.pc = "rename"],
         <<Req("setMyName", <<"pool", rec.idx>>, rec.sender, NoSeg)>>)
Reuse(rec) == SendStage(rec)

\* sendPoolMessage(chatId, text, sender, groupFolder), up to its first await
SendPoolMessage(chatId, text, sender, groupFolder, maxCalls) ==
    /\ Len(calls) < maxCalls
    /\ Cardinality(InFlight) < MaxInFlight
    /\ LET rec == NewCall("sendPoolMessage", chatId, text, sender, groupFolder)
           key == Key(groupFolder, sender)
       IN IF PoolIsEmpty(poolApis)
          THEN /\ calls' = Append(calls, Return(rec, "noop"))
               /\ UNCHANGED <<senderBotMap, nextPoolIndex>>
          ELSE IF MapHas(senderBotMap, key)
          THEN /\ calls' = Append(calls,
                      Reuse([rec EXCEPT !.idx = senderBotMap[key]]))
               /\ UNCHANGED <<senderBotMap, nextPoolIndex>>
          ELSE LET idx == JsMod(nextPoolIndex, Len(poolApis))
                   rec1 == [rec EXCEPT !.idx = idx, !.n = Len(poolApis),
                                       !.fresh = TRUE]
               IN /\ nextPoolIndex' = Increment(nextPoolIndex)
                  /\ senderBotMap' = MapSet(senderBotMap, key, idx)
                  /\ calls' = Append(calls,
                       IF HasApi(poolApis, idx)
                       THEN Hand([rec1 EXCEPT !.pc = "rename"],
                                 <<Req("setMyName", <<"pool", idx>>, sender, NoSeg)>>)
                       ELSE RenameCatch(rec1))
    /\ UNCHANGED <<chanVars, poolApis, init>>

\* poolApis[idx].setMyName(sender) settles: on success the 2000 ms timer is
\* armed, on failure the catch is entered
RenameSettled(cid, ok) ==
    /\ cid \in DOMAIN calls
    /\ calls[cid].pc = "rename"
    /\ \E s \in PendingOf(calls[cid], "setMyName") :
         LET rec == Settled(calls[cid], s, ok)
         IN calls' = [calls EXCEPT ![cid] = IF ok THEN [rec EXCEPT !.pc = "delay"]
                                                  ELSE RenameCatch(rec)]
    /\ UNCHANGED <<chanVars, poolVars>>

\* the setTimeout(r, 2000) fires: the info line, then the send
DelayElapsed(cid) ==
    /\ cid \in DOMAIN calls
    /\ calls[cid].pc = "delay"
    /\ calls' = [calls EXCEPT ![cid] = SendStage(calls[cid])]
    /\ UNCHANGED <<chanVars, poolVars>>

-----------------------------------------------------------------------------
(* TelegramChannel: connect (42-321), disconnect (358-364),                 *)
(* sendMessage (323-348), setTyping (366-374)                               *)

\* connect(): a new Bot replaces this.bot, the handlers are registered on it
\* and polling is started; the Bot held before is neither stopped nor kept
Connect ==
    /\ Len(bots) < MaxBots
    /\ bots' = Append(bots, "starting")
    /\ bot' = Len(bots) + 1
    /\ UNCHANGED <<registered, events, delivered, metadata, poolVars, calls>>

\* onStart of Bot b: polling has begun and the promise of connect() resolves
OnStart(b) ==
    /\ b \in DOMAIN bots
    /\ bots[b] = "starting"
    /\ bots' = [bots EXCEPT ![b] = "polling"]
    /\ UNCHANGED <<bot, registered, events, delivered, metadata, poolVars, calls>>

\* disconnect(): stops and forgets this.bot, if there is one
DisconnectKeepsBot ==
    /\ IF bot # 0
       THEN bots' = [bots EXCEPT ![bot] = "stopped"]
       ELSE UNCHANGED bots
    /\ UNCHANGED <<bot, registered, events, delivered, metadata, poolVars, calls>>
Disconnect ==
    /\ IF bot # 0
       THEN /\ bots' = [bots EXCEPT ![bot] = "stopped"]
            /\ bot' = 0
       ELSE UNCHANGED <<bots, bot>>
    /\ UNCHANGED <<registered, events, delivered, metadata, poolVars, calls>>

isConnected == bot # 0

\* sendMessage(jid, text), up to its first await
SendMessage(jid, text) ==
    /\ Len(calls) < MaxCalls
    /\ Cardinality(InFlight) < MaxInFlight
    /\ LET rec == NewCall("sendMessage", jid, text, "", "")
       IN calls' = Append(calls, IF bot = 0 THEN Return(rec, "noop")
                                            ELSE SendStage(rec))
    /\ UNCHANGED <<chanVars, poolVars>>

\* catch (err) { logger.debug(...) } of setTyping
TypingCatch(rec) == Return(rec, "failed")

\* setTyping(jid, isTyping), up to its await
SetTyping(jid, isTyping) ==
    /\ Len(calls) < MaxCalls
    /\ Cardinality(InFlight) < MaxInFlight
    /\ LET rec == NewCall("setTyping", jid, 0, "", "")
       IN calls' = Append(calls,
            IF bot = 0 \/ ~isTyping
            THEN Return(rec, "noop")
            ELSE Hand([rec EXCEPT !.pc = "typing"],
                      <<Req("sendChatAction", <<"bot", bot>>, NumericId(jid), NoSeg)>>))
    /\ UNCHANGED <<chanVars, poolVars>>

\* the awaited api.sendChatAction settles
TypingSettled(cid, ok) ==
    /\ cid \in DOMAIN calls
    /\ calls[cid].pc = "typing"
    /\ \E s \in PendingOf(calls[cid], "sendChatAction") :
         LET rec == Settled(calls[cid], s, ok)
         IN calls' = [calls EXCEPT ![cid] = IF ok THEN Return(rec, "sent")
                                                  ELSE TypingCatch(rec)]
    /\ UNCHANGED <<chanVars, poolVars>>

-----------------------------------------------------------------------------
(* Inbound handlers registered by connect (145-274)                         *)

\* Strings the handlers build are sequences of tokens, so that prefixes and
\* concatenations are computed rather than assumed.
Slash == "/"
InTexts == {<<"h", "i">>, <<Slash, "x">>}
Captions == {"", "cap"}
NonTextKinds == {"photo", "video", "voice", "audio", "document", "sticker",
                 "location", "contact"}

\* ctx.chat of the two chats: "1" is a private chat, "2" a group with a title
ChatOf(id) == IF id = "1" THEN [id |-> id, type |-> "private", title |-> ""]
                          ELSE [id |-> id, type |-> "group", title |-> "Team"]

\* ctx.from of the updates
From == [id |-> "7", first_name |-> "Ann", username |-> "ann"]

\* a || b for strings: the empty string is falsy
OrElse(a, b) == IF a # "" THEN a ELSE b

\* first_name || username || id.toString() || 'Unknown'
SenderName(from) ==
    OrElse(from.first_name, OrElse(from.username, OrElse(from.id, "Unknown")))

\* ctx.chat.type === 'group' || ctx.chat.type === 'supergroup'
IsGroup(chat) == chat.type \in {"group", "supergroup"}

\* new Date(ctx.message.date * 1000).toISOString()
Timestamp(date) == <<"iso", date * 1000>>

\* ctx.message.text.startsWith('/')
StartsWithSlash(text) == Len(text) > 0 /\ text[1] = Slash

\* this.opts.registeredGroups()[chatJid] is truthy
GateOpen(chatJid) == TRUE
IsRegistered(chatJid) == chatJid \in registered

\* the fixed placeholder of a non-text kind (259-274); extra is the file name
\* of a document, the emoji of a sticker
Placeholder(kind, extra) ==
    CASE kind = "photo" -> <<"[Photo]">>
      [] kind = "video" -> <<"[Video]">>
      [] kind = "voice" -> <<"[Voice message]">>
      [] kind = "audio" -> <<"[Audio]">>
      [] kind = "document" -> <<"[Document: ", OrElse(extra, "file"), "]">>
      [] kind = "sticker" -> <<"[Sticker ", OrElse(extra, ""), "]">>
      [] kind = "location" -> <<"[Location]">>
      [] kind = "contact" -> <<"[Contact]">>

\* ctx.message of a text update: its text, its entities (offset and length
\* count code units of the text) and the message it replies to, if any
NoReply == [present |-> FALSE, from |-> [first_name |-> "", username |-> "", id |-> ""],
            text |-> <<>>, caption |-> <<>>]
NoMsg == [text |-> <<>>, entities |-> <<>>, reply |-> NoReply]
PlainText(text) == [text |-> text, entities |-> <<>>, reply |-> NoReply]

\* ctx.me of the channel's bot
Me == [username |-> <<"A", "n", "d", "y", "_", "B", "o", "t">>]

\* c.toLowerCase() of one code unit, and of a string
LowerOf(c) ==
    CASE c = "A" -> "a" [] c = "B" -> "b" [] c = "C" -> "c" [] c = "D" -> "d"
      [] c = "H" -> "h" [] c = "I" -> "i" [] c = "N" -> "n" [] c = "O" -> "o"
      [] c = "T" -> "t" [] c = "X" -> "x" [] c = "Y" -> "y"
      [] OTHER -> c
ToLowerCase(str) == [k \in DOMAIN str |-> LowerOf(str[k])]

\* str.substring(start, end) for 0 <= start <= end
Substring(str, start, end) ==
    SubSeq(str, Min(start, Len(str)) + 1, Min(end, Len(str)))

\* \w of a regular expression
WordChars ==
    {"a", "b", "c", "d", "e", "f", "g", "h", "i", "j", "k", "l", "m", "n", "o",
     "p", "q", "r", "s", "t", "u", "v", "w", "x", "y", "z",
     "A", "B", "C", "D", "E", "F", "G", "H", "I", "J", "K", "L", "M", "N", "O",
     "P", "Q", "R", "S", "T", "U", "V", "W", "X", "Y", "Z",
     "0", "1", "2", "3", "4", "5", "6", "7", "8", "9", "_"}

\* ASSISTANT_NAME and TRIGGER_PATTERN.test(content) of ../config.js: the
\* pattern is ^@<ASSISTANT_NAME>\b, case-insensitive (comment at 167-168)
ASSISTANT_NAME == <<"A", "n", "d", "y">>
TriggerTest(content) ==
    LET n == Len(ASSISTANT_NAME) IN
    /\ Len(content) >= n + 1
    /\ content[1] = "@"
    /\ ToLowerCase(SubSeq(content, 2, n + 1)) = ToLowerCase(ASSISTANT_NAME)
    /\ (Len(content) = n + 1 \/ content[n + 2] \notin WordChars)

\* entities.some(...): a mention entity whose text is @<botUsername>
IsBotMentioned(content, entities, botUsername) ==
    \E k \in DOMAIN entities :
        /\ entities[k].type = "mention"
        /\ ToLowerCase(Substring(content, entities[k].offset,
                                 entities[k].offset + entities[k].length))
             = <<"@">> \o botUsername

\* lines 169-184: the content after the mention rewrite
MentionRewriteAlways(content, entities, username) ==
    LET botUsername == ToLowerCase(username) IN
    IF botUsername # <<>> /\ IsBotMentioned(content, entities, botUsername)
    THEN <<"@">> \o ASSISTANT_NAME \o <<" ">> \o content
    ELSE content
MentionRewrite(content, entities, username) ==
    LET botUsername == ToLowerCase(username) IN
    IF botUsername = <<>> THEN content
    ELSE IF IsBotMentioned(content, entities, botUsername) /\ ~TriggerTest(content)
         THEN <<"@">> \o ASSISTANT_NAME \o <<" ">> \o content
         ELSE content

\* replyMsg.text || replyMsg.caption || '[non-text message]'
ReplyTextDropsCaption(reply) ==
    IF reply.text # <<>> THEN reply.text ELSE <<"[non-text message]">>
ReplyText(reply) ==
    IF reply.text # <<>> THEN reply.text
    ELSE IF reply.caption # <<>> THEN reply.caption
    ELSE <<"[non-text message]">>

\* lines 187-199: the content after folding in the replied-to message
ReplyFold(content, reply) ==
    IF ~reply.present THEN content
    ELSE <<"[Replying to ", SenderName(reply.from), ": \"">> \o ReplyText(reply)
         \o <<"\"]", "\n">> \o content

\* the update the handler ran on, and whether its chat was a key of the
\* registered-groups map when the handler ran
Seen(id, kind, chatJid, slash, msg) ==
    [id |-> id, kind |-> kind, chat_jid |-> chatJid, slash |-> slash,
     inSnapshot |-> chatJid \in registered, msg |-> msg]

Message(id, chatJid, content, date) ==
    [id |-> id, chat_jid |-> chatJid, sender |-> From.id,
     sender_name |-> SenderName(From), content |-> content,
     timestamp |-> Timestamp(date), is_from_me |-> FALSE]

Meta(id, chatJid, name, chat, date) ==
    [evt |-> id, chat_jid |-> chatJid, timestamp |-> Timestamp(date),
     name |-> name, channel |-> "telegram", isGroup |-> IsGroup(chat)]

\* bot.on('message:text', ...) of Bot b runs on a text message (145-230)
OnText(b, chatId, msg) ==
    /\ b \in DOMAIN bots /\ bots[b] = "polling"
    /\ Len(events) < MaxEvents
    /\ LET id == Len(events) + 1
           chat == ChatOf(chatId)
           chatJid == ChatJid(chatId)
           senderName == SenderName(From)
           chatName == IF chat.type = "private" THEN senderName
                       ELSE OrElse(chat.title, chatJid)
           content == ReplyFold(MentionRewrite(msg.text, msg.entities, Me.username),
                                msg.reply)
       IN /\ events' = Append(events,
                 Seen(id, "text", chatJid, StartsWithSlash(msg.text), msg))
          /\ IF StartsWithSlash(msg.text)
             THEN UNCHANGED <<metadata, delivered>>
             ELSE /\ metadata' = Append(metadata, Meta(id, chatJid, chatName, chat, id))
                  /\ IF ~IsRegistered(chatJid)
                     THEN UNCHANGED delivered
                     ELSE delivered' = Append(delivered, Message(id, chatJid, content, id))
    /\ UNCHANGED <<bots, bot, registered, poolVars, calls>>

\* storeNonText(ctx, placeholder) as called by the handler of a non-text kind
\* of Bot b (233-274)
OnNonText(b, kind, chatId, caption, extra) ==
    /\ b \in DOMAIN bots /\ bots[b] = "polling"
    /\ Len(events) < MaxEvents
    /\ LET id == Len(events) + 1
           chat == ChatOf(chatId)
           chatJid == ChatJid(chatId)
           cap == IF caption # "" THEN <<" ", caption>> ELSE <<>>
       IN /\ events' = Append(events, Seen(id, kind, chatJid, FALSE, NoMsg))
          /\ IF ~IsRegistered(chatJid)
             THEN UNCHANGED <<metadata, delivered>>
             ELSE /\ metadata' = Append(metadata, Meta(id, chatJid, "undefined", chat, id))
                  /\ delivered' = Append(delivered,
                        Message(id, chatJid, Placeholder(kind, extra) \o cap, id))
    /\ UNCHANGED <<bots, bot, registered, poolVars, calls>>

\* the owner of the registered-groups store registers or unregisters a chat
Register(chatJid) ==
    /\ chatJid \notin registered
    /\ registered' = registered \cup {chatJid}
    /\ UNCHANGED <<bots, bot, events, delivered, metadata, poolVars, calls>>

Unregister(chatJid) ==
    /\ chatJid \in registered
    /\ registered' = registered \ {chatJid}
    /\ UNCHANGED <<bots, bot, events, delivered, metadata, poolVars, calls>>

-----------------------------------------------------------------------------
(* Specifications *)

PoolChat == ChatJid("1")
Jids == {ChatJid(id) : id \in ChatIds}

DoOnStart == \E b \in DOMAIN bots : OnStart(b)
DoRegister == \E j \in Jids : Register(j)
DoUnregister == \E j \in Jids : Unregister(j)
TextUpdate ==
    \E b \in DOMAIN bots, c \in ChatIds, t \in InTexts : OnText(b, c, PlainText(t))
NonTextUpdate(kind, caps, extras) ==
    \E b \in DOMAIN bots, c \in ChatIds, cap \in caps, x \in extras :
        OnNonText(b, kind, c, cap, x)
PhotoUpdate == NonTextUpdate("photo", Captions, {""})
VideoUpdate == NonTextUpdate("video", {""}, {""})
VoiceUpdate == NonTextUpdate("voice", {""}, {""})
AudioUpdate == NonTextUpdate("audio", {""}, {""})
DocumentUpdate == NonTextUpdate("document", {""}, {"", "a.pdf"})
StickerUpdate == NonTextUpdate("sticker", {""}, {"", ":)"})
LocationUpdate == NonTextUpdate("location", {""}, {""})
ContactUpdate == NonTextUpdate("contact", {""}, {""})

\* The state once connect() has resolved: one Bot, polling
InitConnected ==
    /\ bots = <<"polling">>
    /\ bot = 1
    /\ registered = {}
    /\ events = <<>>
    /\ delivered = <<>>
    /\ metadata = <<>>
    /\ poolApis = <<>>
    /\ senderBotMap = [k \in {} |-> 0]
    /\ nextPoolIndex = 0
    /\ init = NoInit
    /\ calls = <<>>

\* The inbound side of a connected channel
NextInbound ==
    \/ DoRegister
    \/ DoUnregister
    \/ TextUpdate
    \/ PhotoUpdate
    \/ VideoUpdate
    \/ VoiceUpdate
    \/ AudioUpdate
    \/ DocumentUpdate
    \/ StickerUpdate
    \/ LocationUpdate
    \/ ContactUpdate

SpecInbound == InitConnected /\ [][NextInbound]_vars

\* Text messages with mentions and replies
AtBot == <<"@", "A", "n", "d", "y", "_", "B", "o", "t">>
Hi == <<"h", "i">>
Entity(type, offset, length) == [type |-> type, offset |-> offset, length |-> length]
MentionTexts ==
    { [text |-> AtBot \o <<" ">> \o Hi, entities |-> <<Entity("mention", 0, 9)>>],
      [text |-> <<"@", "a", "n", "d", "y", " ">> \o AtBot,
       entities |-> <<Entity("mention", 6, 9)>>],
      [text |-> Hi \o <<" ">> \o AtBot \o <<" ">> \o AtBot,
       entities |-> <<Entity("mention", 3, 9), Entity("mention", 13, 9)>>],
      [text |-> Hi, entities |-> <<>>],
      [text |-> <<"@", "b", "o", "b", " ">> \o Hi,
       entities |-> <<Entity("mention", 0, 4)>>],
      [text |-> AtBot \o <<" ">> \o Hi, entities |-> <<Entity("bold", 0, 9)>>],
      [text |-> <<"@", "A", "N", "D", "Y">>, entities |-> <<>>],
      [text |-> <<"@", "A", "n", "d", "y", "x", " ">> \o AtBot,
       entities |-> <<Entity("mention", 7, 9)>>] }
Ann == [first_name |-> "Ann", username |-> "ann", id |-> "7"]
NoNames == [first_name |-> "", username |-> "", id |-> "8"]
Replies ==
    { NoReply,
      [present |-> TRUE, from |-> Ann, text |-> <<"o", "k">>, caption |-> <<>>],
      [present |-> TRUE, from |-> NoNames, text |-> <<"a", "\n", "b">>, caption |-> <<>>],
      [present |-> TRUE, from |-> Ann, text |-> <<>>, caption |-> <<"c", "a", "p">>],
      [present |-> TRUE, from |-> Ann, text |-> <<>>, caption |-> <<>>] }
RichMsgs ==
    {[text |-> m.text, entities |-> m.entities, reply |-> r] :
        m \in MentionTexts, r \in Replies}

RichTextUpdate ==
    \E b \in DOMAIN bots, m \in RichMsgs : OnText(b, "2", m)

\* A connected channel whose chats are all registered
InitText ==
    /\ bots = <<"polling">>
    /\ bot = 1
    /\ registered = Jids
    /\ events = <<>>
    /\ delivered = <<>>
    /\ metadata = <<>>
    /\ poolApis = <<>>
    /\ senderBotMap = [k \in {} |-> 0]
    /\ nextPoolIndex = 0
    /\ init = NoInit
    /\ calls = <<>>

\* The text handler on messages with entities and replies
NextText == RichTextUpdate

SpecText == InitText /\ [][NextText]_vars

\* The pool once initBotPool(tokens) has completed with every getMe resolved
InitPool ==
    /\ bots = <<>>
    /\ bot = 0
    /\ registered = {}
    /\ events = <<>>
    /\ delivered = <<>>
    /\ metadata = <<>>
    /\ poolApis \in TokenLists
    /\ senderBotMap = [k \in {} |-> 0]
    /\ nextPoolIndex = 0
    /\ init = [pc |-> "done", tokens |-> poolApis, pos |-> Len(poolApis),
               settled |-> [k \in 1..Len(poolApis) |-> TRUE]]
    /\ calls = <<>>

StartPoolShort ==
    \E key \in PoolKeys, len \in ShortLens :
        SendPoolMessage(PoolChat, len, key[2], key[1], MaxPoolCalls)
RenameOk == \E cid \in DOMAIN calls : RenameSettled(cid, TRUE)
RenameFails == \E cid \in DOMAIN calls : RenameSettled(cid, FALSE)
Delay == \E cid \in DOMAIN calls : DelayElapsed(cid)
SendOk == \E cid \in DOMAIN calls : SendSettled(cid, TRUE)
SendFails == \E cid \in DOMAIN calls : SendSettled(cid, FALSE)

\* The allocator: sendPoolMessage invocations in every interleaving, the
\* rename succeeding or failing.  The outcome of the send is read by nothing
\* in the allocator (lines 417-422 run before it), so here the platform
\* accepts every message; rejected sends are exercised under Spec.
NextPool ==
    \/ StartPoolShort
    \/ RenameOk
    \/ RenameFails
    \/ Delay
    \/ SendOk

SpecPool == InitPool /\ [][NextPool]_vars

StartPoolColon ==
    \E key \in ColonKeys, len \in ShortLens :
        SendPoolMessage(PoolChat, len, key[2], key[1], MaxKeyCalls)

\* The allocator on group folders and sender names that hold ':'
NextKeys ==
    \/ StartPoolColon
    \/ RenameOk
    \/ RenameFails
    \/ Delay
    \/ SendOk

SpecKeys == InitPool /\ [][NextKeys]_vars

DoConnect == Connect
DoDisconnect == Disconnect
StartInit == \E tokens \in TokenLists : InitBotPool(tokens)
GetMeOk == GetMeSettled(TRUE)
GetMeFails == GetMeSettled(FALSE)
StartSend == \E len \in TextLens : SendMessage(PoolChat, len)
StartTyping == \E isTyping \in BOOLEAN : SetTyping(PoolChat, isTyping)
StartPoolLong ==
    \E key \in SendKeys, len \in TextLens :
        SendPoolMessage(PoolChat, len, key[2], key[1], MaxCalls)
TypingOk == \E cid \in DOMAIN calls : TypingSettled(cid, TRUE)
TypingFails == \E cid \in DOMAIN calls : TypingSettled(cid, FALSE)

\* The outbound side: the three send operations against connect and
\* disconnect, in every interleaving, with a pool of every size.  The send
\* operations read this.bot only, never whether polling has started.
Next ==
    \/ DoConnect
    \/ DoDisconnect
    \/ StartSend
    \/ StartTyping
    \/ StartPoolLong
    \/ RenameOk
    \/ RenameFails
    \/ Delay
    \/ SendOk
    \/ SendFails
    \/ TypingOk
    \/ TypingFails

Spec == InitPool /\ [][Next]_vars

\* The life cycle of a channel whose first connect() has resolved: further
\* connect() and disconnect() invocations, with sendMessage in between
NextLife ==
    \/ DoConnect
    \/ DoOnStart
    \/ DoDisconnect
    \/ StartSend
    \/ SendOk
    \/ SendFails

SpecLife == InitConnected /\ [][NextLife]_vars

StartPoolEarly ==
    \E key \in PoolKeys, len \in ShortLens :
        SendPoolMessage(PoolChat, len, key[2], key[1], MaxInitCalls)

\* The pool from module load: initBotPool(tokens) with every outcome of each
\* getMe, and sendPoolMessage invocations before, while and after it runs
NextInit ==
    \/ StartInit
    \/ GetMeOk
    \/ GetMeFails
    \/ StartPoolEarly
    \/ RenameOk
    \/ RenameFails
    \/ Delay
    \/ SendOk

SpecInit == Init /\ [][NextInit]_vars

-----------------------------------------------------------------------------
(* Properties of the allocator, checked under SpecPool *)

\* the sendPoolMessage invocations that got past the empty-pool return
PoolCalls ==
    {c \in DOMAIN calls : calls[c].op = "sendPoolMessage" /\ calls[c].result # "noop"}

SameKey(a, b) ==
    /\ calls[a].groupFolder = calls[b].groupFolder
    /\ calls[a].sender = calls[b].sender

\* the invocations that were the first to pass their (groupFolder, sender)
\* pair, in invocation order
FirstOfKey(c) == \A a \in PoolCalls : a < c => ~SameKey(a, c)
FirstTimeCalls == SelectSeq([c \in DOMAIN calls |-> c],
                            LAMBDA c : c \in PoolCalls /\ FirstOfKey(c))

\* C1: stable assignment.  Any two sendPoolMessage invocations with the same
\* (groupFolder, sender) use the same pool index, which is the index the map
\* holds for the key, whatever assignments of other keys happened in between.
C1_StableAssignment ==
    \A a \in PoolCalls :
        /\ Key(calls[a].groupFolder, calls[a].sender) \in DOMAIN senderBotMap
        /\ senderBotMap[Key(calls[a].groupFolder, calls[a].sender)] = calls[a].idx
        /\ \A b \in PoolCalls : SameKey(a, b) => calls[a].idx = calls[b].idx

\* a key is used, two other keys get their first assignment, and the key is
\* used again
C1_Witness ==
    \E a, m1, m2, b \in PoolCalls :
        /\ a < m1 /\ m1 < m2 /\ m2 < b
        /\ calls[a].fresh /\ calls[m1].fresh /\ calls[m2].fresh
        /\ SameKey(a, b) /\ ~calls[b].fresh
        /\ calls[b].idx = calls[a].idx
        /\ calls[b].idx # calls[m1].idx

\* C2: round-robin.  With a pool of size N and no prior assignments, the k-th
\* distinct key passed to sendPoolMessage takes the first-assignment branch
\* and is given index (k-1) mod N.
C2_RoundRobin ==
    LET first == FirstTimeCalls IN
    \A k \in 1..Len(first) :
        /\ calls[first[k]].fresh
        /\ calls[first[k]].n = Len(poolApis)
        /\ calls[first[k]].idx = (k - 1) % Len(poolApis)

\* the scenario: pool of size 2, (A,alice), (B,bob), (A,alice), (C,carol) use
\* indices 0, 1, 0, 0
C2_Witness ==
    /\ Len(poolApis) = 2
    /\ Len(calls) = 4
    /\ [c \in 1..4 |-> <<calls[c].groupFolder, calls[c].sender, calls[c].idx>>]
         = << <<"A", "alice", 0>>, <<"B", "bob", 1>>,
              <<"A", "alice", 0>>, <<"C", "carol", 0>> >>

\* the requests of an invocation of one kind, in the order they were handed over
ReqsOf(rec, kind) == SelectSeq(rec.reqs, LAMBDA r : r.kind = kind)

RenameFailed(c) ==
    \E s \in DOMAIN calls[c].reqs :
        calls[c].reqs[s].kind = "setMyName" /\ calls[c].reqs[s].status = "failed"

\* C9: a failed rename is not fatal and does not disturb the assignment.  For
\* every invocation whose rename failed: the key still maps to the index the
\* invocation stored, no other invocation with that key took the
\* first-assignment branch, nextPoolIndex counts one consumption per
\* first assignment, and the invocation went on to hand its first segment
\* to the platform right after the rename.
C9_RenameFailureNonFatal ==
    /\ nextPoolIndex = Cardinality({c \in PoolCalls : calls[c].fresh})
    /\ \A c \in PoolCalls : RenameFailed(c) =>
        /\ calls[c].fresh
        /\ Key(calls[c].groupFolder, calls[c].sender) \in DOMAIN senderBotMap
        /\ senderBotMap[Key(calls[c].groupFolder, calls[c].sender)] = calls[c].idx
        /\ \A b \in PoolCalls : (b # c /\ SameKey(b, c)) =>
              ~calls[b].fresh /\ calls[b].idx = calls[c].idx
        /\ Len(calls[c].reqs) >= 2
        /\ calls[c].reqs[2].kind = "sendMessage"
        /\ calls[c].reqs[2].via = <<"pool", calls[c].idx>>

\* a rename fails, the send of that invocation succeeds, and a later
\* invocation with the same key reuses the index
C9_Witness ==
    \E c, b \in PoolCalls :
        /\ c < b /\ SameKey(b, c)
        /\ RenameFailed(c)
        /\ calls[c].result = "sent"
        /\ calls[b].result = "sent"
        /\ nextPoolIndex = 1

\* C10: empty pool.  A sendPoolMessage invocation made while the pool is empty
\* returns at once: it hands nothing to the platform (no rename, no send) and
\* leaves senderBotMap and nextPoolIndex as they were.
C10_EmptyPoolNoOp ==
    [][(Len(poolApis) = 0 /\ Len(calls') = Len(calls) + 1
            /\ calls'[Len(calls')].op = "sendPoolMessage")
        => /\ senderBotMap' = senderBotMap
           /\ nextPoolIndex' = nextPoolIndex
           /\ calls'[Len(calls')].reqs = <<>>
           /\ calls'[Len(calls')].pc = "done"
           /\ calls'[Len(calls')].promise = "fulfilled"]_vars

\* sendPoolMessage has been invoked on an empty pool for every key
C10_Witness ==
    /\ Len(poolApis) = 0
    /\ \A key \in PoolKeys : \E c \in DOMAIN calls :
          /\ calls[c].op = "sendPoolMessage"
          /\ <<calls[c].groupFolder, calls[c].sender>> = key
          /\ calls[c].pc = "done"

-----------------------------------------------------------------------------
(* Properties of the send paths, checked under Spec *)

\* the invocations of the two operations that send text
SendCalls == {c \in DOMAIN calls : calls[c].op \in {"sendMessage", "sendPoolMessage"}}

\* the segments of one logical send, in the order they were handed over
Segs(rec) == ReqsOf(rec, "sendMessage")

RECURSIVE JoinSegs(_, _)
JoinSegs(len, segs) ==
    IF segs = <<>> THEN <<>>
    ELSE SegText(len, Head(segs).seg) \o JoinSegs(len, Tail(segs))

\* the number of code units of a segment
SegLen(seg) == seg.to - seg.from

SegLengths(rec) == LET segs == Segs(rec) IN [k \in 1..Len(segs) |-> SegLen(segs[k].seg)]

\* C3: chunking round trip.  Every segment handed over except the last one
\* has exactly MAX_LENGTH code units, a text of at most MAX_LENGTH code units
\* is handed over as one segment, and when every send of the logical send
\* has succeeded the segments concatenated in send order are the text.
C3_ChunkRoundTrip ==
    \A c \in SendCalls :
        LET rec == calls[c]
            lens == SegLengths(rec)
        IN /\ \A k \in 1..Len(lens) - 1 : lens[k] = MAX_LENGTH
           /\ rec.text <= MAX_LENGTH => Len(lens) <= 1
           /\ rec.result = "sent" =>
                LET segs == Segs(rec) IN
                /\ Len(segs) >= 1
                /\ \A k \in DOMAIN segs :
                      /\ segs[k].status = "ok"
                      /\ Len(SegText(rec.text, segs[k].seg)) = lens[k]
                /\ JoinSegs(rec.text, segs) = TextOf(rec.text)

\* a text of 9000 code units went out through the pool as 4096, 4096, 808
C3_Witness ==
    \E c \in SendCalls :
        /\ calls[c].op = "sendPoolMessage"
        /\ calls[c].text = 9000
        /\ calls[c].result = "sent"
        /\ SegLengths(calls[c]) = <<4096, 4096, 808>>

\* C4: chunk ordering.  An invocation has at most one request pending, every
\* segment handed over before its latest one has completed successfully, and
\* the segments of one send go left to right through the text.
C4_ChunkOrdering ==
    \A c \in SendCalls :
        LET rec == calls[c] IN
        /\ \A j, k \in DOMAIN rec.reqs :
              (rec.reqs[j].status = "pending" /\ rec.reqs[k].status = "pending")
              => j = k
        /\ \A k \in 1..Len(rec.reqs) - 1 : rec.reqs[k].status # "pending"
        /\ \A k \in 1..Len(Segs(rec)) - 1 : Segs(rec)[k].status = "ok"
        /\ \A k \in 1..Len(Segs(rec)) - 1 :
              Segs(rec)[k].seg.to = Segs(rec)[k + 1].seg.from
        /\ \A k \in DOMAIN Segs(rec) : Segs(rec)[k].seg.from = (k - 1) * MAX_LENGTH

\* sendMessage is suspended on its first segment, connect() replaces this.bot,
\* and the second segment goes out, through the new Bot, only after the first
\* has completed
C4_Witness ==
    \E c \in SendCalls :
        /\ calls[c].op = "sendMessage"
        /\ Len(calls[c].reqs) = 2
        /\ calls[c].reqs[1].status = "ok"
        /\ calls[c].reqs[2].status = "pending"
        /\ calls[c].reqs[1].via # calls[c].reqs[2].via

\* C7: no error reaches the caller.  The promise of a sendMessage, setTyping
\* or sendPoolMessage invocation is never rejected, and is fulfilled once the
\* invocation has ended.
C7_NoErrorPropagates ==
    \A c \in DOMAIN calls :
        /\ calls[c].promise # "rejected"
        /\ calls[c].pc = "done" => calls[c].promise = "fulfilled"

\* disconnect() ran while sendMessage was suspended on a segment: reading
\* this.bot.api for the next segment threw, with no request failed
C7_Witness ==
    \E c \in DOMAIN calls :
        /\ calls[c].op = "sendMessage"
        /\ calls[c].result = "failed"
        /\ calls[c].promise = "fulfilled"
        /\ calls[c].reqs # <<>>
        /\ \A k \in DOMAIN calls[c].reqs : calls[c].reqs[k].status = "ok"
        /\ bot = 0

\* C8: fail-fast.  A failed segment send is the last request of its logical
\* send: the invocation has ended, nothing was handed over after it, and no
\* segment of the send was handed over twice.
C8_FailFast ==
    \A c \in SendCalls :
        LET rec == calls[c] IN
        /\ \A k \in DOMAIN rec.reqs :
              (rec.reqs[k].kind = "sendMessage" /\ rec.reqs[k].status = "failed")
              => /\ k = Len(rec.reqs)
                 /\ rec.pc = "done"
                 /\ rec.result = "failed"
        /\ \A j, k \in DOMAIN Segs(rec) :
              j # k => Segs(rec)[j].seg # Segs(rec)[k].seg

\* the second of three segments failed after the first was sent: the first
\* stays sent and the third is never handed over
C8_Witness ==
    \E c \in SendCalls :
        /\ calls[c].text = 9000
        /\ Len(Segs(calls[c])) = 2
        /\ Segs(calls[c])[1].status = "ok"
        /\ Segs(calls[c])[2].status = "failed"
        /\ calls[c].pc = "done"

-----------------------------------------------------------------------------
(* Properties of the inbound handlers, checked under SpecInbound *)

Range(seq) == {seq[k] : k \in DOMAIN seq}

DeliveriesOf(e) == {k \in DOMAIN delivered : delivered[k].id = e.id}
MetadataOf(e) == {k \in DOMAIN metadata : metadata[k].evt = e.id}

\* A text starting with "/" is a command: the text handler leaves it to the
\* command handlers (line 147) before it reaches the registration gate.
ReachesGate(e) == ~e.slash

\* C5: the registration gate is a pure filter.  onMessage is invoked for an
\* update only if its chat was a key of the registered-groups map when the
\* handler ran, and then once, with that chat; an update whose chat was not
\* registered then is delivered in no later state, whatever is registered
\* afterwards; an update that reaches the gate while its chat is registered
\* is delivered.
C5_RegistrationGate ==
    /\ \A k \in DOMAIN delivered :
          \E e \in Range(events) :
              /\ e.id = delivered[k].id
              /\ e.chat_jid = delivered[k].chat_jid
              /\ e.inSnapshot
    /\ \A e \in Range(events) :
          /\ ~e.inSnapshot => DeliveriesOf(e) = {}
          /\ (e.inSnapshot /\ ReachesGate(e)) => Cardinality(DeliveriesOf(e)) = 1

\* an update of an unregistered chat was dropped, the chat was registered,
\* and the next update of that chat was delivered while the first was not
C5_Witness ==
    \E e1, e2 \in Range(events) :
        /\ e1.id < e2.id
        /\ e1.chat_jid = e2.chat_jid
        /\ ReachesGate(e1) /\ ~e1.inSnapshot
        /\ e2.inSnapshot
        /\ e1.chat_jid \in registered
        /\ DeliveriesOf(e1) = {}
        /\ DeliveriesOf(e2) # {}

\* C6: chat metadata is always recorded.  For every update that reaches the
\* gate from a chat that is not registered, onMessage is not invoked and
\* onChatMetadata is invoked exactly once.
C6_MetadataAlwaysRecorded ==
    \A e \in Range(events) :
        (ReachesGate(e) /\ ~e.inSnapshot) =>
            /\ DeliveriesOf(e) = {}
            /\ Cardinality(MetadataOf(e)) = 1

-----------------------------------------------------------------------------
(* Properties of the life cycle, checked under SpecLife *)

\* the Bot instances whose event source runs: start() was called, stop() not
ActiveBots == {b \in DOMAIN bots : bots[b] \in {"starting", "polling"}}

\* disconnect() has run on a connected channel and connect() has not since
DisconnectedSince == bots # <<>> /\ bots[Len(bots)] = "stopped"

\* C11: sendMessage after disconnect.  Every sendMessage invoked after
\* disconnect() has run and before the next connect() returns at once: it
\* hands nothing to the platform and its promise is fulfilled.
C11_SendAfterDisconnectNoOp ==
    [][(DisconnectedSince /\ Len(calls') = Len(calls) + 1
            /\ calls'[Len(calls')].op = "sendMessage")
        => /\ calls'[Len(calls')].reqs = <<>>
           /\ calls'[Len(calls')].pc = "done"
           /\ calls'[Len(calls')].result = "noop"
           /\ calls'[Len(calls')].promise = "fulfilled"]_vars

\* the channel was connected, disconnect() ran, and a sendMessage made with
\* no Bot held has returned without a request
C11_Witness ==
    /\ DisconnectedSince
    /\ bot = 0
    /\ \E c \in DOMAIN calls :
          /\ calls[c].op = "sendMessage"
          /\ calls[c].result = "noop"
          /\ calls[c].reqs = <<>>
          /\ calls[c].promise = "fulfilled"

\* C12: connect() is idempotent.  A connected channel has exactly one event
\* source running, the one of the Bot it holds, however often connect() was
\* invoked, and after disconnect() no event source runs.
C12_ConnectIdempotent ==
    ActiveBots = IF bot = 0 THEN {} ELSE {bot}

-----------------------------------------------------------------------------
(* Properties of the pool's initialisation, checked under SpecInit *)

\* the tokens whose getMe resolved, in the order of the token list
RECURSIVE Succeeded(_, _)
Succeeded(tokens, settled) ==
    IF tokens = <<>> \/ settled = <<>> THEN <<>>
    ELSE (IF Head(settled) THEN <<Head(tokens)>> ELSE <<>>)
         \o Succeeded(Tail(tokens), Tail(settled))

\* C13: initBotPool is best-effort per credential.  While initBotPool runs on
\* an empty pool the pool holds the identities of the tokens whose getMe has
\* resolved so far, in the order of the list; when it has completed every
\* token of the list was tried, and hasPoolBots() is true iff one succeeded.
C13_BestEffortInit ==
    /\ poolApis = Succeeded(init.tokens, init.settled)
    /\ init.pc = "done" =>
          /\ Len(init.settled) = Len(init.tokens)
          /\ hasPoolBots <=> (\E k \in DOMAIN init.settled : init.settled[k])

\* the first credential failed, the second was still initialised
C13_Witness ==
    /\ init.pc = "done"
    /\ Len(init.tokens) = 2
    /\ init.settled = <<FALSE, TRUE>>
    /\ poolApis = <<init.tokens[2]>>
    /\ hasPoolBots

\* C19: the pool is fixed.  Once a sendPoolMessage invocation has got past
\* the empty-pool return, no later step changes the pool: its size and the
\* identity at each position stay as they were.
C19_PoolFixed ==
    [][PoolCalls # {} => poolApis' = poolApis]_vars

-----------------------------------------------------------------------------
(* Properties of the content the text handler delivers, checked under      *)
(* SpecText                                                                *)

ContentOf(e) == delivered[CHOOSE k \in DeliveriesOf(e) : TRUE].content

\* the message carries a mention entity whose substring is "@" followed by
\* the adapter's own username, compared case-insensitively
QualifyingMention(msg) ==
    \E k \in DOMAIN msg.entities :
        LET en == msg.entities[k] IN
        /\ en.type = "mention"
        /\ ToLowerCase(SubSeq(msg.text, en.offset + 1, en.offset + en.length))
             = ToLowerCase(<<"@">> \o Me.username)

TriggerToken == <<"@">> \o ASSISTANT_NAME \o <<" ">>

\* the entities of a message after n code units were put in front of its text
Shifted(entities, n) ==
    [k \in DOMAIN entities |-> [entities[k] EXCEPT !.offset = @ + n]]

\* C14: mention rewrite.  For a delivered text message without a reply: with
\* a qualifying mention and a text the trigger pattern does not match, the
\* content is the trigger token followed by the text, which the pattern
\* matches; with a text the pattern matches, the content is the text; and the
\* rewrite applied to the content, with the entities as they were or moved
\* along with the text, gives the content back.
C14_MentionRewrite ==
    \A e \in Range(events) :
        (e.kind = "text" /\ ~e.slash /\ ~e.msg.reply.present) =>
            /\ DeliveriesOf(e) # {}
            /\ LET c == e.msg.text
                   out == ContentOf(e)
               IN /\ (QualifyingMention(e.msg) /\ ~TriggerTest(c)) =>
                        /\ out = TriggerToken \o c
                        /\ TriggerTest(out)
                  /\ TriggerTest(c) => out = c
                  /\ \A ents \in {e.msg.entities,
                                   Shifted(e.msg.entities, Len(out) - Len(c))} :
                        MentionRewrite(out, ents, Me.username) = out

\* one message with two qualifying mentions got the trigger token once, and
\* one whose text already matched the pattern was delivered as it was
C14_Witness ==
    \E e1, e2 \in Range(events) :
        /\ ~e1.msg.reply.present /\ ~e2.msg.reply.present
        /\ Len(e1.msg.entities) = 2 /\ QualifyingMention(e1.msg)
        /\ DeliveriesOf(e1) # {}
        /\ ContentOf(e1) = <<"@", "A", "n", "d", "y", " ">> \o e1.msg.text
        /\ QualifyingMention(e2.msg) /\ TriggerTest(e2.msg.text)
        /\ DeliveriesOf(e2) # {}
        /\ ContentOf(e2) = e2.msg.text

\* the positions of the line breaks of a string
LineBreaks(str) == {k \in DOMAIN str : str[k] = "\n"}

-----------------------------------------------------------------------------
(* Properties of concurrent sendPoolMessage invocations, checked under     *)
(* SpecPool                                                                *)

\* the (groupFolder, sender) pairs that got past the empty-pool return
PairsUsed == {<<calls[c].groupFolder, calls[c].sender>> : c \in PoolCalls}

\* the invocation is suspended in its rename or its settling delay
Bootstrapping(c) == calls[c].pc \in {"rename", "delay"}

\* C16: lookup-then-insert is atomic.  However the invocations interleave at
\* their awaits, exactly one invocation per (groupFolder, sender) takes the
\* first-assignment branch, nextPoolIndex has grown by one per pair, and
\* every send of every invocation with the pair goes through the one index.
C16_AtomicLookupInsert ==
    /\ nextPoolIndex = Cardinality(PairsUsed)
    /\ \A a \in PoolCalls :
          /\ Cardinality({b \in PoolCalls : SameKey(a, b) /\ calls[b].fresh}) = 1
          /\ \A b \in PoolCalls : SameKey(a, b) =>
                \A k \in DOMAIN calls[b].reqs :
                    calls[b].reqs[k].via = <<"pool", calls[a].idx>>

\* two invocations with one new key back to back: the first is still
\* suspended in its rename, the second has found the mapping, and one slot
\* was consumed
C16_Witness ==
    \E a, b \in PoolCalls :
        /\ b = a + 1 /\ SameKey(a, b)
        /\ calls[a].fresh /\ calls[a].pc = "rename"
        /\ ~calls[b].fresh /\ calls[b].idx = calls[a].idx
        /\ nextPoolIndex = 1
        /\ Len(calls) = 2

\* C17: bootstrap before any send.  While the invocation that assigned a key
\* is suspended in its rename or its settling delay, no invocation with that
\* key has handed a segment to the platform.
C17_BootstrapBeforeSend ==
    \A a, b \in PoolCalls :
        (SameKey(a, b) /\ calls[a].fresh /\ Bootstrapping(a))
            => Segs(calls[b]) = <<>>

\* the invocations with the pair of c that handed a rename to the platform
RenamesOf(c) ==
    {b \in PoolCalls : SameKey(b, c) /\ ReqsOf(calls[b], "setMyName") # <<>>}

\* C18: reuse has no allocator side effect.  A step that starts
\* sendPoolMessage with a key the map holds leaves senderBotMap and
\* nextPoolIndex as they were; such an invocation never hands over a rename
\* and is never suspended in a rename or a delay; and at most one rename was
\* ever handed over per key.
C18_ReuseNoSideEffect ==
    /\ [](\A c \in PoolCalls :
            /\ ~calls[c].fresh => (~Bootstrapping(c) /\ ReqsOf(calls[c], "setMyName") = <<>>)
            /\ Len(ReqsOf(calls[c], "setMyName")) <= 1
            /\ Cardinality(RenamesOf(c)) <= 1)
    /\ [][(Len(calls') = Len(calls) + 1
             /\ calls'[Len(calls')].op = "sendPoolMessage"
             /\ Key(calls'[Len(calls')].groupFolder, calls'[Len(calls')].sender)
                  \in DOMAIN senderBotMap)
          => /\ senderBotMap' = senderBotMap
             /\ nextPoolIndex' = nextPoolIndex
             /\ ~calls'[Len(calls')].fresh
             /\ calls'[Len(calls')].pc \notin {"rename", "delay"}]_vars

\* a key was assigned and its rename handed over, another key was assigned,
\* and a later invocation with the first key has sent without a rename
C18_Witness ==
    \E a, m, b \in PoolCalls :
        /\ a < m /\ m < b
        /\ SameKey(a, b) /\ ~SameKey(a, m)
        /\ calls[a].fresh /\ calls[m].fresh /\ ~calls[b].fresh
        /\ calls[b].result = "sent"
        /\ ReqsOf(calls[b], "setMyName") = <<>>
        /\ Cardinality(RenamesOf(a)) = 1
        /\ nextPoolIndex = 2

-----------------------------------------------------------------------------
(* Property of the key, checked under SpecKeys *)

\* C20: the map is keyed by the pair.  The first invocation with each
\* (groupFolder, sender) pair takes the first-assignment branch, with its own
\* consumption of nextPoolIndex and its own rename, also for group folders
\* and sender names that hold ':'.
C20_KeyedByPair ==
    /\ nextPoolIndex = Cardinality(PairsUsed)
    /\ \A c \in PoolCalls : FirstOfKey(c) =>
          /\ calls[c].fresh
          /\ ReqsOf(calls[c], "setMyName") # <<>>

====
